---- MODULE Spec2Model ----
(***************************************************************************)
(* starknet-probe: the multicall calldata encoder, the u256 splitter, the  *)
(* felt and short-string conversions (SimpleProbe) and the balance string  *)
(* of get_eth_balance (Probe), all of src/src/probe/mod.rs.                *)
(*                                                                         *)
(* A text is a sequence of one-character strings.  A field element is a    *)
(* record: a number (parsed from text or converted from a usize) or the    *)
(* selector hash of a name (starknet_keccak is kept uninterpreted and      *)
(* injective: the hash of a name is the name under the tag "hash").        *)
(***************************************************************************)
EXTENDS Integers, Sequences, FiniteSets, TLC

VARIABLES
    desc,               \* the items (tokens and hyphens) the input text is made of
    style,              \* how the items are laid out in the text
    args,               \* generate_multicall_calldata: its argument
    pc,                 \* position in generate_multicall_calldata / the encoder
    idx,                \* enumerate() index of the next call_str, 0-based
    calls,              \* Vec<Call>
    k,                  \* number of calls the encoder loop has processed
    execute_calldata,   \* the encoder's header/output buffer
    concated_calldata,  \* the encoder's data buffer
    result,             \* what the entry point returned
    hex,                \* split_u256: its argument
    alt,                \* whether the linked U128 LowerHex writes "0x" for {:#x}
    spc,                \* position in split_u256
    sres,               \* what split_u256 returned
    res,                \* get_eth_balance: the felts returned by balanceOf
    bal,                \* what get_eth_balance returned
    bpc,                \* position in get_eth_balance
    felt,               \* to_hex / to_dec: the argument
    text,               \* what to_hex or to_dec returned
    back,               \* what the argument parser made of that text
    fpc,                \* position in the felt conversions
    short_str,          \* str_to_felt: its argument
    felt_hex,           \* what str_to_felt returned
    utf8,               \* what from_utf8 returned
    tpc                 \* position in the short-string conversions

vars == <<desc, style, args, pc, idx, calls, k, execute_calldata,
          concated_calldata, result, hex, alt, spc, sres, res, bal, bpc,
          felt, text, back, fpc, short_str, felt_hex, utf8, tpc>>

mcVars == <<desc, style, args, pc, idx, calls, k, execute_calldata,
            concated_calldata, result>>

suVars == <<hex, alt, spc, sres>>

ethVars == <<res, bal, bpc>>

feltVars == <<felt, text, back, fpc>>

strVars == <<short_str, felt_hex, utf8, tpc>>

cvVars == <<ethVars, feltVars, strVars>>

(***************************************************************************)
(* Bounds of the model.                                                    *)
(***************************************************************************)
MaxItems == 5       \* items (tokens and hyphens) of a multicall text
MaxPlainItems == 6  \* items of a text made of felt literals, names and hyphens
MaxCalls == 3       \* calls of a batch handed directly to the encoder
MaxPadded == 3      \* items of a text laid out with blanks around it
MaxStrChars == 32   \* characters of a short-string argument
MaxData == 3        \* calldata items of such a batch, all calls together
MaxHexLen == 66     \* digits of a split_u256 argument after its prefix

(***************************************************************************)
(* Text helpers: what the Rust string methods used by the code compute.    *)
(***************************************************************************)
RECURSIVE Flatten(_)
Flatten(ss) == IF ss = <<>> THEN <<>> ELSE Head(ss) \o Flatten(Tail(ss))

RECURSIVE Repeat(_, _)
Repeat(c, n) == IF n <= 0 THEN <<>> ELSE <<c>> \o Repeat(c, n - 1)

\* the space is the only whitespace character of the model's texts
IsWhitespace(c) == c = " "

\* str::trim
RECURSIVE TrimStart(_)
TrimStart(s) ==
    IF s # <<>> /\ IsWhitespace(Head(s)) THEN TrimStart(Tail(s)) ELSE s

RECURSIVE TrimEnd(_)
TrimEnd(s) ==
    IF s # <<>> /\ IsWhitespace(s[Len(s)])
    THEN TrimEnd(SubSeq(s, 1, Len(s) - 1)) ELSE s

Trim(s) == TrimEnd(TrimStart(s))

\* str::split(char): the pieces between the occurrences of ch, always at
\* least one piece (the empty text splits into one empty piece).
RECURSIVE SplitFrom(_, _, _)
SplitFrom(s, ch, piece) ==
    IF s = <<>> THEN <<piece>>
    ELSE IF Head(s) = ch THEN <<piece>> \o SplitFrom(Tail(s), ch, <<>>)
    ELSE SplitFrom(Tail(s), ch, Append(piece, Head(s)))

Split(s, ch) == SplitFrom(s, ch, <<>>)

StartsWith0x(s) == Len(s) >= 2 /\ s[1] = "0" /\ s[2] = "x"

\* str::trim_start_matches("0x"): the prefix is removed repeatedly
RECURSIVE TrimStartMatches0x(_)
TrimStartMatches0x(s) ==
    IF StartsWith0x(s) THEN TrimStartMatches0x(SubSeq(s, 3, Len(s))) ELSE s

\* the one non-ASCII character of the model, standing for U+00E9
NonAscii == "U+00E9"

IsAscii(c) == c # NonAscii

DecDigits == <<"0", "1", "2", "3", "4", "5", "6", "7", "8", "9">>
LowerHexDigits == DecDigits \o <<"a", "b", "c", "d", "e", "f">>
UpperHexDigits == DecDigits \o <<"A", "B", "C", "D", "E", "F">>

IsDecDigit(c) == \E i \in 1..10 : DecDigits[i] = c
IsHexDigit(c) == \E i \in 1..16 : LowerHexDigits[i] = c \/ UpperHexDigits[i] = c
DecVal(c) == (CHOOSE i \in 1..10 : DecDigits[i] = c) - 1
HexVal(c) ==
    (CHOOSE i \in 1..16 : LowerHexDigits[i] = c \/ UpperHexDigits[i] = c) - 1

(***************************************************************************)
(* Field elements and their parsing (starknet FieldElement).               *)
(***************************************************************************)
IntFelt(n) == [tag |-> "int", num |-> n, name |-> <<>>]
HashFelt(nm) == [tag |-> "hash", num |-> 0, name |-> nm]

FeltOk(f) == [ok |-> TRUE, val |-> f, err |-> ""]
FeltErr(e) == [ok |-> FALSE, val |-> IntFelt(0), err |-> e]

RECURSIVE HexNum(_, _)
HexNum(s, acc) ==
    IF s = <<>> THEN acc ELSE HexNum(Tail(s), acc * 16 + HexVal(Head(s)))

RECURSIVE DecNum(_, _)
DecNum(s, acc) ==
    IF s = <<>> THEN acc ELSE DecNum(Tail(s), acc * 10 + DecVal(Head(s)))

\* FieldElement::from_hex_be: the length is checked before the digits (the
\* texts of the model are too short to reach the field prime)
from_hex_be(s) ==
    LET value == TrimStartMatches0x(s)
    IN  IF Len(value) > 2 * 32 THEN FeltErr("OutOfRange")
        ELSE IF \E i \in 1..Len(value) : ~IsHexDigit(value[i])
             THEN FeltErr("InvalidCharacter")
        ELSE FeltOk(IntFelt(HexNum(value, 0)))

\* FieldElement::from_dec_str: digit by digit from zero, so the empty text
\* is the number 0
from_dec_str(s) ==
    IF \E i \in 1..Len(s) : ~IsDecDigit(s[i])
    THEN FeltErr("InvalidCharacter")
    ELSE FeltOk(IntFelt(DecNum(s, 0)))

\* <FieldElement as FromStr>::from_str
from_str(s) == IF StartsWith0x(s) THEN from_hex_be(s) ELSE from_dec_str(s)

\* get_selector_from_name: the hash of an ASCII name, an error otherwise
get_selector_from_name(nm) ==
    IF \E i \in 1..Len(nm) : ~IsAscii(nm[i])
    THEN FeltErr("NonAsciiName")
    ELSE FeltOk(HashFelt(nm))

(***************************************************************************)
(* Field elements at full width.  A number is the sequence of its base-16  *)
(* digits (0..15), most significant first, without leading zero; the       *)
(* empty sequence is 0.                                                    *)
(***************************************************************************)
RECURSIVE BigCanon(_)
BigCanon(ds) == IF ds # <<>> /\ Head(ds) = 0 THEN BigCanon(Tail(ds)) ELSE ds

RECURSIVE BigLexLess(_, _)
BigLexLess(a, b) ==
    IF a = <<>> THEN FALSE
    ELSE IF Head(a) # Head(b) THEN Head(a) < Head(b)
    ELSE BigLexLess(Tail(a), Tail(b))

\* a < b, for numbers without leading zero
BigLess(a, b) ==
    IF Len(a) # Len(b) THEN Len(a) < Len(b) ELSE BigLexLess(a, b)

\* ds * m + c, for m <= 16 and c < 16
RECURSIVE BigMulAdd(_, _, _)
BigMulAdd(ds, m, c) ==
    IF ds = <<>> THEN (IF c = 0 THEN <<>> ELSE <<c>>)
    ELSE LET v == ds[Len(ds)] * m + c
         IN  Append(BigMulAdd(SubSeq(ds, 1, Len(ds) - 1), m, v \div 16),
                    v % 16)

\* ds divided by d, digit by digit from the left: the quotient (with its
\* leading zeros) and the remainder
RECURSIVE BigDivMod(_, _, _, _)
BigDivMod(ds, d, q, r) ==
    IF ds = <<>> THEN [quot |-> q, rem |-> r]
    ELSE LET v == r * 16 + Head(ds)
         IN  BigDivMod(Tail(ds), d, Append(q, v \div d), v % d)

\* the field prime P = 2^251 + 17 * 2^192 + 1
FieldPrime ==
    <<8>> \o [i \in 1..12 |-> 0] \o <<1, 1>> \o [i \in 1..47 |-> 0] \o <<1>>

TextOk(t) == [ok |-> TRUE, val |-> t, err |-> ""]
TextErr(e) == [ok |-> FALSE, val |-> <<>>, err |-> e]

BigOk(f) == [ok |-> TRUE, val |-> f, err |-> ""]
BigErr(e) == [ok |-> FALSE, val |-> <<>>, err |-> e]

\* <FieldElement as LowerHex>::fmt without width: "0x" for the `#` flag,
\* then the digits without leading zeros, "0" for zero
FormatFelt(f, alternate) ==
    (IF alternate THEN <<"0", "x">> ELSE <<>>) \o
    (IF f = <<>> THEN <<"0">> ELSE [i \in 1..Len(f) |-> LowerHexDigits[f[i] + 1]])

\* <FieldElement as Display>::fmt: the decimal digits, by repeated division
RECURSIVE DecDigitsOf(_, _)
DecDigitsOf(f, acc) ==
    IF f = <<>> THEN acc
    ELSE LET qr == BigDivMod(f, 10, <<>>, 0)
         IN  DecDigitsOf(BigCanon(qr.quot), <<DecDigits[qr.rem + 1]>> \o acc)

FormatFeltDec(f) == IF f = <<>> THEN <<"0">> ELSE DecDigitsOf(f, <<>>)

\* FieldElement::from_hex_be at full width: at most 64 digits after the
\* prefix, and a value below the prime
felt_from_hex_be(s) ==
    LET value == TrimStartMatches0x(s)
    IN  IF Len(value) > 2 * 32 THEN BigErr("OutOfRange")
        ELSE IF \E i \in 1..Len(value) : ~IsHexDigit(value[i])
             THEN BigErr("InvalidCharacter")
        ELSE LET n == BigCanon([i \in 1..Len(value) |-> HexVal(value[i])])
             IN  IF BigLess(n, FieldPrime) THEN BigOk(n)
                 ELSE BigErr("OutOfRange")

RECURSIVE BigDecNum(_, _)
BigDecNum(s, acc) ==
    IF s = <<>> THEN acc
    ELSE BigDecNum(Tail(s), BigMulAdd(acc, 10, DecVal(Head(s))))

\* FieldElement::from_dec_str at full width
felt_from_dec_str(s) ==
    IF \E i \in 1..Len(s) : ~IsDecDigit(s[i])
    THEN BigErr("InvalidCharacter")
    ELSE LET n == BigDecNum(s, <<>>)
         IN  IF BigLess(n, FieldPrime) THEN BigOk(n) ELSE BigErr("OutOfRange")

\* <FieldElement as FromStr>::from_str at full width
felt_from_str(s) ==
    IF StartsWith0x(s) THEN felt_from_hex_be(s) ELSE felt_from_dec_str(s)

(***************************************************************************)
(* generate_multicall_calldata: one call_str of args.split('-').           *)
(***************************************************************************)
NoErr == [msg |-> "", cause |-> "", call |-> 0]
Report(m, c, i) == [msg |-> m, cause |-> c, call |-> i]

Ok(v) == [ok |-> TRUE, val |-> v, err |-> NoErr]
Err(e) == [ok |-> FALSE, val |-> <<>>, err |-> e]

NoCall == [to |-> IntFelt(0), selector |-> IntFelt(0), calldata |-> <<>>]
CallOk(c) == [ok |-> TRUE, call |-> c, err |-> NoErr]
CallErr(e) == [ok |-> FALSE, call |-> NoCall, err |-> e]

\* (a variant: the call_str is not trimmed)
CallTokensUntrimmed(call_str) == Split(call_str, " ")

\* the tokens of a call_str: call_str.trim().split(' ')
CallTokens(call_str) == Split(Trim(call_str), " ")

\* the calldata loop: the parsed items, or the first failure
ParseCalldataItems(toks) ==
    LET parsed == [j \in 1..Len(toks) |-> from_str(toks[j])]
        bad == {j \in 1..Len(toks) : ~parsed[j].ok}
    IN  IF bad = {}
        THEN [ok |-> TRUE, items |-> [j \in 1..Len(toks) |-> parsed[j].val],
              err |-> ""]
        ELSE [ok |-> FALSE, items |-> <<>>,
              err |-> parsed[CHOOSE j \in bad : \A h \in bad : j <= h].err]

\* (a variant: every token is first split at its commas, as clap's
\* value_delimiter = ',' does for `call --input`)
ParseCalldataCommaLists(toks) ==
    ParseCalldataItems(Flatten([j \in 1..Len(toks) |-> Split(toks[j], ",")]))

ParseCalldata(toks) == ParseCalldataItems(toks)

\* (a variant: the 0-based index is reported)
CallNoZeroBased(i) == i

\* the call number of the error messages: idx + 1
CallNo(i) == i + 1

\* (a variant: the target and the selector are checked before the calldata)
BuildCallSpecOrder(data, i) ==
    LET cd == ParseCalldata(SubSeq(data, 3, Len(data)))
        to == from_str(data[1])
        sel == get_selector_from_name(data[2])
    IN  IF ~to.ok
        THEN CallErr(Report("for call contract address", to.err, CallNo(i)))
        ELSE IF ~sel.ok
        THEN CallErr(Report("for call selector", sel.err, CallNo(i)))
        ELSE IF ~cd.ok
        THEN CallErr(Report("in calldata for call", cd.err, CallNo(i)))
        ELSE CallOk([to |-> to.val, selector |-> sel.val,
                     calldata |-> cd.items])

\* what follows the two next() calls: the calldata loop, then the Call
\* literal (to, then selector), each with its `?`
BuildCall(data, i) ==
    LET cd == ParseCalldata(SubSeq(data, 3, Len(data)))
        to == from_str(data[1])
        sel == get_selector_from_name(data[2])
    IN  IF ~cd.ok
        THEN CallErr(Report("in calldata for call", cd.err, CallNo(i)))
        ELSE IF ~to.ok
        THEN CallErr(Report("for call contract address", to.err, CallNo(i)))
        ELSE IF ~sel.ok
        THEN CallErr(Report("for call selector", sel.err, CallNo(i)))
        ELSE CallOk([to |-> to.val, selector |-> sel.val,
                     calldata |-> cd.items])

\* the body of the for loop for the call_str at 0-based index i
ParseCall(call_str, i) ==
    LET data == CallTokens(call_str)
    IN  IF Len(data) < 1
        THEN CallErr(Report("missing contract address for call", "", CallNo(i)))
        ELSE IF Len(data) < 2
        THEN CallErr(Report("missing function name for call", "", CallNo(i)))
        ELSE BuildCall(data, i)

(***************************************************************************)
(* split_u256.                                                             *)
(***************************************************************************)
U256HexLen == 64    \* hex_chars_len.cmp(&64)

SplitOk(h, l) == [ok |-> TRUE, high |-> h, low |-> l, err |-> ""]
SplitErr(e) == [ok |-> FALSE, high |-> <<>>, low |-> <<>>, err |-> e]

BytesOk(b) == [ok |-> TRUE, bytes |-> b, err |-> ""]
BytesErr(e) == [ok |-> FALSE, bytes |-> <<>>, err |-> e]

\* hex::decode: two digits of either case make a byte
hex_decode(s) ==
    IF Len(s) % 2 # 0 THEN BytesErr("OddLength")
    ELSE IF \E i \in 1..Len(s) : ~IsHexDigit(s[i])
    THEN BytesErr("InvalidHexCharacter")
    ELSE BytesOk([j \in 1..(Len(s) \div 2) |->
                    16 * HexVal(s[2 * j - 1]) + HexVal(s[2 * j])])

\* (a variant: the length is compared with 65)
HexLenCmpOffByOne(len) ==
    IF len = U256HexLen + 1 THEN "Equal"
    ELSE IF len < U256HexLen + 1 THEN "Less" ELSE "Greater"

\* hex_chars_len.cmp(&64)
HexLenCmp(len) ==
    IF len = U256HexLen THEN "Equal"
    ELSE IF len < U256HexLen THEN "Less" ELSE "Greater"

\* the match: the 32 bytes of the left-padded digits, or OutOfRange
PaddedHex(h) ==
    LET ord == HexLenCmp(Len(h))
    IN  IF ord = "Equal" THEN hex_decode(h)
        ELSE IF ord = "Less"
        THEN hex_decode(Repeat("0", U256HexLen - Len(h)) \o h)
        ELSE BytesErr("OutOfRange")

\* (a variant: the halves returned low first)
U256SplitLowFirst(bytes) ==
    <<SubSeq(bytes, (Len(bytes) \div 2) + 1, Len(bytes)),
      SubSeq(bytes, 1, Len(bytes) \div 2)>>

\* U256::from_be_slice(..).split(): the upper and the lower 16 bytes, as
\* big-endian byte sequences
U256Split(bytes) ==
    <<SubSeq(bytes, 1, Len(bytes) \div 2),
      SubSeq(bytes, (Len(bytes) \div 2) + 1, Len(bytes))>>

\* format!("{x:#x}") of a crypto_bigint U128: LowerHex writes every limb
\* zero-padded to its full width, so 32 digits in all; `a` tells whether
\* the release that is linked writes "0x" for the `#` flag.
FormatU128(x, a) ==
    (IF a THEN <<"0", "x">> ELSE <<>>) \o
    Flatten([j \in 1..Len(x) |->
               <<LowerHexDigits[(x[j] \div 16) + 1],
                 LowerHexDigits[(x[j] % 16) + 1]>>])

split_u256(h, a) ==
    LET padded_hex == PaddedHex(TrimStartMatches0x(h))
    IN  IF ~padded_hex.ok THEN SplitErr(padded_hex.err)
        ELSE LET hl == U256Split(padded_hex.bytes)
             IN  SplitOk(FormatU128(hl[1], a), FormatU128(hl[2], a))

(***************************************************************************)
(* The arguments of split_u256: a prefix, then n characters; the last one, *)
(* the two on either side of the middle of a 64-digit text and the        *)
(* remaining ones are chosen separately.                                   *)
(***************************************************************************)
Prefixes == {<<>>, <<"0", "x">>, <<"0", "x", "0", "x">>}

Body(n, a, b, c, d) ==
    [i \in 1..n |->
        LET p == n - i + 1
        IN  IF p = 1 THEN d
            ELSE IF p = (U256HexLen \div 2) THEN c
            ELSE IF p = (U256HexLen \div 2) + 1 THEN b
            ELSE a]

SplitInputs ==
    {pre \o Body(n, a, b, c, d) :
        pre \in Prefixes, n \in 0..MaxHexLen, a \in {"0", "F", "g"},
        b \in {"0", "1", "F"}, c \in {"0", "1", "F"}, d \in {"0", "1", "F"}}

(***************************************************************************)
(* The input texts: items laid out in a line.                              *)
(***************************************************************************)
Items == {"hex", "dec", "name", "uni", "list", "-"}

ItemText(it) ==
    CASE it = "hex" -> <<"0", "x", "1", "f">>
      [] it = "dec" -> <<"7">>
      [] it = "name" -> <<"f">>
      [] it = "uni" -> <<NonAscii>>
      [] it = "list" -> <<"1", ",", "2">>
      [] it = "-" -> <<"-">>

Styles == {"spaced", "tight", "padded"}

\* "spaced": every two items are separated by one space; "tight": a hyphen
\* is attached to its neighbours; "padded": "spaced" with one blank before
\* and one after the whole text
Gap(a, b, st) ==
    IF st = "tight" /\ (a = "-" \/ b = "-") THEN <<>> ELSE <<" ">>

RECURSIVE Render(_, _)
Render(d, st) ==
    IF d = <<>> THEN <<>>
    ELSE IF Len(d) = 1 THEN ItemText(d[1])
    ELSE ItemText(d[1]) \o Gap(d[1], d[2], st) \o Render(Tail(d), st)

Text(d, st) ==
    IF st = "padded" THEN <<" ">> \o Render(d, "spaced") \o <<" ">>
    ELSE Render(d, st)

PlainItems == {"hex", "dec", "name", "-"}

Descs ==
    UNION {[1..n -> Items] : n \in 0..MaxItems} \cup
    UNION {[1..n -> PlainItems] : n \in 0..MaxPlainItems}

\* the layouts of d that give different texts
StylesOf(d) ==
    {"spaced"} \cup
    (IF \E j \in 1..(Len(d) - 1) : d[j] = "-" \/ d[j + 1] = "-"
     THEN {"tight"} ELSE {}) \cup
    (IF Len(d) <= MaxPadded THEN {"padded"} ELSE {})

(***************************************************************************)
(* Batches handed directly to the encoder.                                 *)
(***************************************************************************)
DataOfLen(m) == [1..m -> {IntFelt(3), IntFelt(4)}]

CallsOfLen(m) ==
    {[to |-> t, selector |-> HashFelt(<<"f">>), calldata |-> d] :
        t \in {IntFelt(1), IntFelt(2)}, d \in DataOfLen(m)}

\* the batches of n calls with at most total calldata items in all
RECURSIVE BatchesOf(_, _)
BatchesOf(n, total) ==
    IF n = 0 THEN {<<>>}
    ELSE UNION {{<<c>> \o r : c \in CallsOfLen(m), r \in BatchesOf(n - 1, total - m)} :
                  m \in 0..total}

Batches == UNION {BatchesOf(n, MaxData) : n \in 0..MaxCalls}

(***************************************************************************)
(* Initial states.                                                         *)
(***************************************************************************)
SuIdle == hex = <<>> /\ alt = FALSE /\ spc = "idle" /\ sres = SplitErr("")

EthIdle == res = <<>> /\ bal = <<>> /\ bpc = "idle"

FeltIdle == felt = <<>> /\ text = <<>> /\ back = BigErr("") /\ fpc = "idle"

StrIdle ==
    short_str = <<>> /\ felt_hex = TextErr("") /\ utf8 = TextErr("") /\ tpc = "idle"

CvIdle == EthIdle /\ FeltIdle /\ StrIdle

McIdle ==
    /\ desc = <<>> /\ style = "spaced" /\ args = <<>> /\ pc = "idle"
    /\ idx = 0 /\ calls = <<>> /\ k = 0
    /\ execute_calldata = <<>> /\ concated_calldata = <<>>
    /\ result = Ok(<<>>)

\* generate_multicall_calldata(args) is entered
Init ==
    /\ desc \in Descs
    /\ style \in StylesOf(desc)
    /\ args = Text(desc, style)
    /\ pc = "parse"
    /\ idx = 0
    /\ calls = <<>>
    /\ k = 0
    /\ execute_calldata = <<>>
    /\ concated_calldata = <<>>
    /\ result = Ok(<<>>)
    /\ SuIdle
    /\ CvIdle

\* generate_calldata_for_multicall_account(calls) is entered
InitEncode ==
    /\ desc = <<>>
    /\ style = "spaced"
    /\ args = <<>>
    /\ pc = "encode"
    /\ idx = 0
    /\ calls \in Batches
    /\ k = 0
    /\ execute_calldata = <<>>
    /\ concated_calldata = <<>>
    /\ result = Ok(<<>>)
    /\ SuIdle
    /\ CvIdle

\* split_u256(hex) is entered
InitSplit ==
    /\ McIdle
    /\ hex \in SplitInputs
    /\ alt \in BOOLEAN
    /\ spc = "call"
    /\ sres = SplitErr("")
    /\ CvIdle

(***************************************************************************)
(* generate_multicall_calldata.                                            *)
(***************************************************************************)
\* (a variant: a hyphen separates calls only where it stands alone between
\* blanks or the ends of the text)
RECURSIVE SplitLoneHyphen(_, _, _)
SplitLoneHyphen(s, i, cur) ==
    IF i > Len(s) THEN <<cur>>
    ELSE IF /\ s[i] = "-"
            /\ (i = 1 \/ s[i - 1] = " ")
            /\ (i = Len(s) \/ s[i + 1] = " ")
         THEN <<cur>> \o SplitLoneHyphen(s, i + 1, <<>>)
         ELSE SplitLoneHyphen(s, i + 1, Append(cur, s[i]))

CallStrsLoneHyphen == SplitLoneHyphen(args, 1, <<>>)

\* (a variant: pieces that are blank are skipped)
CallStrsSkipBlank ==
    SelectSeq(Split(args, "-"), LAMBDA piece : Trim(piece) # <<>>)

CallStrs == Split(args, "-")

\* (a variant: a call that cannot be parsed is skipped and the loop goes on)
ParseStepSkipBad ==
    /\ pc = "parse"
    /\ LET strs == CallStrs
       IN  /\ idx < Len(strs)
           /\ LET r == ParseCall(strs[idx + 1], idx)
              IN  /\ calls' = IF r.ok THEN Append(calls, r.call) ELSE calls
                  /\ idx' = idx + 1
                  /\ UNCHANGED <<pc, result>>
    /\ UNCHANGED <<desc, style, args, k, execute_calldata, concated_calldata>>
    /\ UNCHANGED suVars
    /\ UNCHANGED cvVars

\* one iteration of `for (idx, call_str) in args.split('-').enumerate()`
ParseStep ==
    /\ pc = "parse"
    /\ LET strs == CallStrs
       IN  /\ idx < Len(strs)
           /\ LET r == ParseCall(strs[idx + 1], idx)
              IN  IF r.ok
                  THEN /\ calls' = Append(calls, r.call)
                       /\ idx' = idx + 1
                       /\ UNCHANGED <<pc, result>>
                  ELSE /\ result' = Err(r.err)
                       /\ pc' = "done"
                       /\ UNCHANGED <<calls, idx>>
    /\ UNCHANGED <<desc, style, args, k, execute_calldata, concated_calldata>>
    /\ UNCHANGED suVars
    /\ UNCHANGED cvVars

\* the loop is over: Self::generate_calldata_for_multicall_account(&calls)
ParseEnd ==
    /\ pc = "parse"
    /\ idx = Len(CallStrs)
    /\ pc' = "encode"
    /\ UNCHANGED <<desc, style, args, idx, calls, k, execute_calldata,
                   concated_calldata, result>>
    /\ UNCHANGED suVars
    /\ UNCHANGED cvVars

(***************************************************************************)
(* generate_calldata_for_multicall_account.                                *)
(***************************************************************************)
\* the two buffers are created
EncodeInit ==
    /\ pc = "encode"
    /\ concated_calldata' = <<>>
    /\ execute_calldata' = <<IntFelt(Len(calls))>>
    /\ k' = 0
    /\ pc' = "loop"
    /\ UNCHANGED <<desc, style, args, idx, calls, result>>
    /\ UNCHANGED suVars
    /\ UNCHANGED cvVars

\* (a variant: every call's offset is 0, the running total is forgotten)
CallHeaderZeroOffset(call, data) ==
    <<call.to, call.selector, IntFelt(0), IntFelt(Len(call.calldata))>>

\* (a variant: the offset and the length pushed in the other order)
CallHeaderLenFirst(call, data) ==
    <<call.to, call.selector, IntFelt(Len(call.calldata)), IntFelt(Len(data))>>

\* what one iteration appends to the header buffer
CallHeader(call, data) ==
    <<call.to, call.selector, IntFelt(Len(data)), IntFelt(Len(call.calldata))>>

\* one iteration of `for call in calls.iter()`
EncodeCall ==
    /\ pc = "loop"
    /\ k < Len(calls)
    /\ LET call == calls[k + 1]
       IN  /\ execute_calldata' =
                  execute_calldata \o CallHeader(call, concated_calldata)
           /\ concated_calldata' = concated_calldata \o call.calldata
    /\ k' = k + 1
    /\ UNCHANGED <<desc, style, args, pc, idx, calls, result>>
    /\ UNCHANGED suVars
    /\ UNCHANGED cvVars

\* (a variant: the data pushed last item first)
CallTailReversed(data) ==
    <<IntFelt(Len(data))>> \o [j \in 1..Len(data) |-> data[Len(data) + 1 - j]]

\* what follows the loop: the total length, then the data
CallTail(data) == <<IntFelt(Len(data))>> \o data

EncodeEnd ==
    /\ pc = "loop"
    /\ k = Len(calls)
    /\ execute_calldata' = execute_calldata \o CallTail(concated_calldata)
    /\ result' = Ok(execute_calldata')
    /\ pc' = "done"
    /\ UNCHANGED <<desc, style, args, idx, calls, k, concated_calldata>>
    /\ UNCHANGED suVars
    /\ UNCHANGED cvVars

NextEncode == EncodeInit \/ EncodeCall \/ EncodeEnd

Next == ParseStep \/ ParseEnd \/ NextEncode

Spec == Init /\ [][Next]_vars

SpecEncode == InitEncode /\ [][NextEncode]_vars

\* split_u256 runs and returns
SplitU256 ==
    /\ spc = "call"
    /\ sres' = split_u256(hex, alt)
    /\ spc' = "done"
    /\ UNCHANGED <<hex, alt>>
    /\ UNCHANGED mcVars
    /\ UNCHANGED cvVars

NextSplit == SplitU256

SpecSplit == InitSplit /\ [][NextSplit]_vars

(***************************************************************************)
(* The layout of ExecuteCalldata, stated on a batch (not on the loop).     *)
(***************************************************************************)
RECURSIVE SumLen(_, _)
SumLen(cs, n) == IF n <= 0 THEN 0 ELSE SumLen(cs, n - 1) + Len(cs[n].calldata)

RECURSIVE AllData(_, _)
AllData(cs, n) == IF n <= 0 THEN <<>> ELSE AllData(cs, n - 1) \o cs[n].calldata

RECURSIVE AllHeaders(_, _)
AllHeaders(cs, n) ==
    IF n <= 0 THEN <<>>
    ELSE AllHeaders(cs, n - 1) \o
         <<cs[n].to, cs[n].selector, IntFelt(SumLen(cs, n - 1)),
           IntFelt(Len(cs[n].calldata))>>

Layout(cs) ==
    <<IntFelt(Len(cs))>> \o AllHeaders(cs, Len(cs)) \o
    <<IntFelt(SumLen(cs, Len(cs)))>> \o AllData(cs, Len(cs))

Returned == pc = "done" /\ result.ok

\* C1: the output starts with the call count n, and for each k in 1..n the
\* four elements at (0-based) positions 1+4(k-1) .. 4k are c_k.target,
\* c_k.selector, the sum of the calldata lengths of the calls before c_k,
\* and len(c_k.calldata).
C1_Header ==
    Returned =>
        LET out == result.val
            n == Len(calls)
        IN  /\ Len(out) >= 1 + 4 * n
            /\ out[1] = IntFelt(n)
            /\ \A c \in 1..n :
                /\ out[4 * (c - 1) + 2] = calls[c].to
                /\ out[4 * (c - 1) + 3] = calls[c].selector
                /\ out[4 * (c - 1) + 4] = IntFelt(SumLen(calls, c - 1))
                /\ out[4 * (c - 1) + 5] = IntFelt(Len(calls[c].calldata))

C1_Witness ==
    /\ Returned
    /\ Len(calls) = 3
    /\ Len(calls[1].calldata) = 2
    /\ Len(calls[2].calldata) = 1
    /\ calls[1].to # calls[3].to

\* C2: the element at (0-based) position 1+4n is the total calldata length
\* T, and the T elements after it are the calls' calldata concatenated in
\* call order, each call's items in their original order.
C2_Trailer ==
    Returned =>
        LET out == result.val
            n == Len(calls)
            T == SumLen(calls, n)
        IN  /\ Len(out) = 2 + 4 * n + T
            /\ out[2 + 4 * n] = IntFelt(T)
            /\ SubSeq(out, 3 + 4 * n, 2 + 4 * n + T) = AllData(calls, n)

C2_Witness ==
    /\ Returned
    /\ Len(calls) = 2
    /\ calls[1].calldata = <<IntFelt(3), IntFelt(4)>>
    /\ calls[2].calldata = <<IntFelt(4)>>

(***************************************************************************)
(* The calls a text describes, read off the items it was made of.          *)
(***************************************************************************)
RECURSIVE GroupsFrom(_, _)
GroupsFrom(d, cur) ==
    IF d = <<>> THEN <<cur>>
    ELSE IF Head(d) = "-" THEN <<cur>> \o GroupsFrom(Tail(d), <<>>)
    ELSE GroupsFrom(Tail(d), Append(cur, Head(d)))

\* the items of each call, the hyphens removed
Groups == GroupsFrom(desc, <<>>)

IsFeltItem(it) == it \in {"hex", "dec"}
IsNameItem(it) == it \in {"hex", "dec", "name", "list"}
ItemFelt(it) == IF it = "hex" THEN IntFelt(31) ELSE IntFelt(7)

GoodGroup(g) ==
    /\ Len(g) >= 2
    /\ IsFeltItem(g[1])
    /\ IsNameItem(g[2])
    /\ \A j \in 3..Len(g) : IsFeltItem(g[j])

GroupCall(g) ==
    [to |-> ItemFelt(g[1]),
     selector |-> HashFelt(ItemText(g[2])),
     calldata |-> [j \in 1..(Len(g) - 2) |-> ItemFelt(g[j + 2])]]

\* the 1-based index of the first call with a defect, 0 when there is none
FirstBad ==
    LET bad == {i \in 1..Len(Groups) : ~GoodGroup(Groups[i])}
    IN  IF bad = {} THEN 0 ELSE CHOOSE i \in bad : \A j \in bad : i <= j

Finished == pc = "done"

\* C3: a text of n >= 1 well-formed calls joined by " - ", the tokens of a
\* call separated by single spaces, is encoded as the batch of its calls in
\* textual order: (target, hash of the name, the calldata tokens in order).
C3_WellFormedText ==
    (Finished /\ style = "spaced" /\ FirstBad = 0) =>
        result = Ok(Layout([i \in 1..Len(Groups) |-> GroupCall(Groups[i])]))

C3_Witness ==
    /\ Finished
    /\ style = "spaced"
    /\ desc = <<"hex", "name", "dec", "-", "dec", "name">>
    /\ result.ok

C3_WitnessOrder ==
    /\ Finished
    /\ style = "spaced"
    /\ desc = <<"dec", "name", "hex", "dec">>
    /\ result.ok

\* C4: when the first defective call, at 1-based index i, has a target
\* token and no function-name token, the result is the missing
\* function-name failure for call i, whatever the target token is.
C4_MissingSelector ==
    (Finished /\ FirstBad > 0 /\ Len(Groups[FirstBad]) = 1) =>
        result = Err(Report("missing function name for call", "", FirstBad))

C4_Witness ==
    /\ Finished
    /\ FirstBad = 2
    /\ Groups[2] = <<"uni">>
    /\ ~result.ok

\* C5: when the first defective call, at 1-based index i, has no token at
\* all, the result is the missing-target failure for call i.
C5_MissingTarget ==
    (Finished /\ FirstBad > 0 /\ Len(Groups[FirstBad]) = 0) =>
        result = Err(Report("missing contract address for call", "", FirstBad))

\* the failure the stated order of the rules gives for a defective call
\* that has a target token
StatedOrderError(g, i) ==
    IF Len(g) < 2
    THEN Report("missing function name for call", "", i)
    ELSE IF ~IsFeltItem(g[1])
    THEN Report("for call contract address", "InvalidCharacter", i)
    ELSE IF ~IsNameItem(g[2])
    THEN Report("for call selector", "NonAsciiName", i)
    ELSE Report("in calldata for call", "InvalidCharacter", i)

\* the failure the order of the code gives for a defective call
CodeOrderError(g, i) ==
    IF Len(g) < 2
    THEN Report("missing function name for call", "", i)
    ELSE IF \E j \in 3..Len(g) : ~IsFeltItem(g[j])
    THEN Report("in calldata for call", "InvalidCharacter", i)
    ELSE IF ~IsFeltItem(g[1])
    THEN Report("for call contract address", "InvalidCharacter", i)
    ELSE Report("for call selector", "NonAsciiName", i)

ListTolerant(g) ==
    /\ Len(g) >= 2
    /\ IsFeltItem(g[1])
    /\ IsNameItem(g[2])
    /\ \A j \in 3..Len(g) : IsFeltItem(g[j]) \/ g[j] = "list"

DataFelts(it) ==
    IF it = "list" THEN <<IntFelt(1), IntFelt(2)>> ELSE <<ItemFelt(it)>>

ListCall(g) ==
    [to |-> ItemFelt(g[1]),
     selector |-> HashFelt(ItemText(g[2])),
     calldata |-> Flatten([j \in 1..(Len(g) - 2) |-> DataFelts(g[j + 2])])]

\* C7 as stated: a calldata token that is a comma-separated list of felt
\* literals contributes its literals in order, as separate tokens would.
C7_ListAccepted ==
    (Finished /\ style = "spaced"
       /\ \A i \in 1..Len(Groups) : ListTolerant(Groups[i])) =>
        result = Ok(Layout([i \in 1..Len(Groups) |-> ListCall(Groups[i])]))

\* C7 (amended): a calldata token is accepted as a single felt literal
\* only; when the first defective call, at index i, is well formed except
\* for comma-separated lists among its calldata tokens, the result is the
\* calldata failure for call i, carrying the error of from_str.
C7_ListRejected ==
    (Finished /\ FirstBad > 0 /\ ListTolerant(Groups[FirstBad])) =>
        /\ ~result.ok
        /\ result.err.msg = "in calldata for call"
        /\ result.err.call = FirstBad
        /\ result.err.cause # ""

C7_Witness ==
    /\ Finished
    /\ FirstBad = 1
    /\ Groups[1] = <<"hex", "name", "dec", "list">>
    /\ ~result.ok

(***************************************************************************)
(* split_u256: hex numerals, read as digit sequences.                      *)
(***************************************************************************)
Lower(c) ==
    IF \E i \in 11..16 : UpperHexDigits[i] = c
    THEN LowerHexDigits[CHOOSE i \in 11..16 : UpperHexDigits[i] = c]
    ELSE c

LowerAll(s) == [i \in 1..Len(s) |-> Lower(s[i])]

\* a digit sequence without its leading zeros: two sequences of lowercase
\* digits denote the same number iff they are equal without them
RECURSIVE Canon(_)
Canon(ds) == IF ds # <<>> /\ Head(ds) = "0" THEN Canon(Tail(ds)) ELSE ds

\* the digits of a text after its optional 0x prefix
DigitsOf(s) == IF StartsWith0x(s) THEN SubSeq(s, 3, Len(s)) ELSE s

\* the argument is an optional 0x prefix followed by hex digits only
HexInput == \A i \in 1..Len(DigitsOf(hex)) : IsHexDigit(DigitsOf(hex)[i])

\* the number a text of hex digits denotes
NumberOf(s) == Canon(LowerAll(DigitsOf(s)))

HalfLen == U256HexLen \div 2

\* v div 2^128 and v mod 2^128 of the number v the digits ds denote
DivHalf(ds) == Canon(LowerAll(SubSeq(ds, 1, Len(ds) - HalfLen)))
ModHalf(ds) ==
    Canon(LowerAll(SubSeq(ds, IF Len(ds) > HalfLen THEN Len(ds) - HalfLen + 1 ELSE 1,
                          Len(ds))))

SplitDone == spc = "done"

\* C8: an argument of more than 64 hex digits after its optional 0x prefix
\* fails with OutOfRange, and one of 0 to 64 hex digits succeeds.
C8_Range ==
    (SplitDone /\ HexInput) =>
        IF Len(DigitsOf(hex)) > 64
        THEN sres = SplitErr("OutOfRange")
        ELSE sres.ok

C8_Witness ==
    /\ SplitDone
    /\ HexInput
    /\ Len(DigitsOf(hex)) = 65
    /\ Head(DigitsOf(hex)) = "0"
    /\ ~sres.ok

C8_WitnessAccepted ==
    /\ SplitDone
    /\ HexInput
    /\ Len(DigitsOf(hex)) = 64
    /\ Head(DigitsOf(hex)) = "F"
    /\ sres.ok

\* C9: for an accepted argument denoting v the pair returned is
\* (v div 2^128, v mod 2^128), in this order, both below 2^128.
C9_Halves ==
    (SplitDone /\ HexInput /\ sres.ok) =>
        /\ NumberOf(sres.high) = DivHalf(DigitsOf(hex))
        /\ NumberOf(sres.low) = ModHalf(DigitsOf(hex))
        /\ Len(NumberOf(sres.high)) <= HalfLen
        /\ Len(NumberOf(sres.low)) <= HalfLen

C9_Witness ==
    /\ SplitDone
    /\ HexInput
    /\ sres.ok
    /\ Len(DigitsOf(hex)) = 40
    /\ NumberOf(sres.high) # <<>>
    /\ NumberOf(sres.low) # <<>>
    /\ NumberOf(sres.high) # NumberOf(sres.low)

\* lowercase, 0x-prefixed, no leading zero digit, zero written 0x0
IsCanonicalHex(s) ==
    /\ StartsWith0x(s)
    /\ Len(s) >= 3
    /\ \A i \in 3..Len(s) : \E j \in 1..16 : LowerHexDigits[j] = s[i]
    /\ (Len(s) > 3 => s[3] # "0")

\* C10: for an accepted argument each of the two halves returned is a
\* canonical hex felt string.
C10_Canonical ==
    (SplitDone /\ HexInput /\ sres.ok) =>
        IsCanonicalHex(sres.high) /\ IsCanonicalHex(sres.low)

(***************************************************************************)
(* Stopping at the first defect, the encoder's loop, the call count.       *)
(***************************************************************************)
\* C15: the calls are processed in the order of the text and the first
\* defective call ends the function: when call i (1-based) is the first
\* defective one the result is a failure carrying i, whatever comes after
\* it, no calldata is returned and the encoder is never entered
C15_FirstDefect ==
    (Finished /\ FirstBad > 0) =>
        /\ ~result.ok
        /\ result.err.call = FirstBad
        /\ result.val = <<>>
        /\ Len(calls) = FirstBad - 1
        /\ execute_calldata = <<>>
        /\ concated_calldata = <<>>

\* the second call is the first defective one and the third is defective too
C15_Witness ==
    /\ Finished
    /\ Len(Groups) = 3
    /\ FirstBad = 2
    /\ ~GoodGroup(Groups[3])
    /\ ~result.ok
    /\ result.err.call = 2

\* the output read back: the count, the header of call j, the total, the data
OutCount(out) == out[1].num
OutOffset(out, j) == out[4 * j + 0].num
OutLen(out, j) == out[4 * j + 1].num
OutTotal(out) == out[2 + 4 * OutCount(out)].num
OutData(out) == SubSeq(out, 3 + 4 * OutCount(out), Len(out))
OutSlice(out, j) ==
    SubSeq(OutData(out), OutOffset(out, j) + 1, OutOffset(out, j) + OutLen(out, j))
Decode(out) ==
    [j \in 1..OutCount(out) |->
        [to |-> out[4 * j - 2], selector |-> out[4 * j - 1],
         calldata |-> OutSlice(out, j)]]

\* C16: in the loop of generate_calldata_for_multicall_account, after k calls
\* the header buffer has 1 + 4k elements and the data buffer has the sum of
\* the first k calldata lengths; the output has 2 + 4n + T elements, each
\* offset plus its length is the next offset (the total T after the last),
\* the slice of the data at a call's offset and length is its calldata, the
\* batch can be read back from the output, and no call gives [0, 0]
C16_LoopInvariant ==
    /\ pc = "loop" =>
        /\ k <= Len(calls)
        /\ Len(execute_calldata) = 1 + 4 * k
        /\ Len(concated_calldata) = SumLen(calls, k)
    /\ Returned =>
        LET out == result.val
            n == Len(calls)
        IN  /\ Len(out) = 2 + 4 * n + SumLen(calls, n)
            /\ OutCount(out) = n
            /\ OutTotal(out) = SumLen(calls, n)
            /\ n > 0 => OutOffset(out, 1) = 0
            /\ \A j \in 1..n :
                /\ OutOffset(out, j) + OutLen(out, j) =
                       IF j < n THEN OutOffset(out, j + 1) ELSE OutTotal(out)
                /\ OutSlice(out, j) = calls[j].calldata
            /\ Decode(out) = calls
            /\ n = 0 => out = <<IntFelt(0), IntFelt(0)>>

\* in the middle of the loop: two of three calls done, data in both of them
C16_Witness ==
    /\ pc = "loop"
    /\ Len(calls) = 3
    /\ k = 2
    /\ Len(calls[1].calldata) = 1
    /\ Len(calls[2].calldata) = 2
    /\ Len(execute_calldata) = 9
    /\ Len(concated_calldata) = 3

Blank(s) == \A i \in 1..Len(s) : s[i] = " "

\* C17: generate_multicall_calldata never returns a call count of 0: the
\* first element of every output is at least 1, and the empty text, like a
\* text of blanks only, fails for call 1 and does not give [0, 0]
C17_NeverZeroCalls ==
    /\ Returned =>
        /\ result.val # <<>>
        /\ result.val[1].tag = "int"
        /\ result.val[1].num >= 1
    /\ (Finished /\ Blank(args)) =>
        /\ ~result.ok
        /\ result.err.call = 1
        /\ result.val # <<IntFelt(0), IntFelt(0)>>

\* a text of two blanks has failed for call 1
C17_Witness ==
    /\ Finished
    /\ args = <<" ", " ">>
    /\ ~result.ok
    /\ result.err.call = 1

HyphenCount(s) == Cardinality({i \in 1..Len(s) : s[i] = "-"})

\* C18: every hyphen of the text is a call boundary, attached to a token or
\* not: the loop never goes past call 1 + (number of hyphens), the encoder is
\* entered with exactly that many calls, and every output has that count
C18_HyphenBoundaries ==
    /\ pc = "parse" => idx <= 1 + HyphenCount(args)
    /\ (Finished /\ ~result.ok) => result.err.call <= 1 + HyphenCount(args)
    /\ pc \in {"encode", "loop"} => Len(calls) = 1 + HyphenCount(args)
    /\ Returned => result.val[1] = IntFelt(1 + HyphenCount(args))

\* "0x1f f-7 f": the hyphen stands inside a token and two calls are returned
C18_Witness ==
    /\ Returned
    /\ style = "tight"
    /\ args = <<"0", "x", "1", "f", " ", "f", "-", "7", " ", "f">>
    /\ result.val[1] = IntFelt(2)

(***************************************************************************)
(* get_eth_balance: the Uint256 returned by balanceOf, as one hex string.  *)
(***************************************************************************)
\* format!("{:#x}{:x}", res[1], res[0]); r[1] is res[0], r[2] is res[1]
get_eth_balance(r) == FormatFelt(r[2], TRUE) \o FormatFelt(r[1], FALSE)

\* the felts below 2^128: n digits, the first one and the others chosen
\* separately
HalfFelts ==
    {<<>>} \cup
    {[i \in 1..n |-> IF i = 1 THEN a ELSE b] :
        n \in 1..HalfLen, a \in {1, 15}, b \in {0, 15}}

\* the call of balanceOf has returned res = [low, high]
InitBalance ==
    /\ McIdle
    /\ SuIdle
    /\ FeltIdle
    /\ StrIdle
    /\ res \in HalfFelts \X HalfFelts
    /\ bal = <<>>
    /\ bpc = "call"

\* get_eth_balance formats res and returns
GetEthBalance ==
    /\ bpc = "call"
    /\ bal' = get_eth_balance(res)
    /\ bpc' = "done"
    /\ UNCHANGED res
    /\ UNCHANGED <<mcVars, suVars, feltVars, strVars>>

NextBalance == GetEthBalance

SpecBalance == InitBalance /\ [][NextBalance]_vars

\* the number a hex text denotes, as digits
ValueOf(s) == LET n == NumberOf(s) IN [i \in 1..Len(n) |-> HexVal(n[i])]

\* the halves returned by split_u256 become the felts of a Uint256
HalvesToUint256 ==
    /\ spc = "done"
    /\ sres.ok
    /\ bpc = "idle"
    /\ res' = <<ValueOf(sres.low), ValueOf(sres.high)>>
    /\ bpc' = "call"
    /\ UNCHANGED bal
    /\ UNCHANGED <<mcVars, suVars, feltVars, strVars>>

NextRoundTrip == SplitU256 \/ HalvesToUint256 \/ GetEthBalance

SpecRoundTrip == InitSplit /\ [][NextRoundTrip]_vars

\* high * 2^128 + low: the digits of high, then those of low at full width
Uint256Value(r) ==
    BigCanon(r[2] \o [i \in 1..(HalfLen - Len(r[1])) |-> 0] \o r[1])

\* C11: the string get_eth_balance builds from res = [low, high], both
\* below 2^128, is the hex form of high * 2^128 + low, also when low has
\* fewer than 32 significant digits
C11_JoinedBalance ==
    bpc = "done" =>
        /\ StartsWith0x(bal)
        /\ ValueOf(bal) = Uint256Value(res)

\* C12: a 256-bit value written in hex, split by split_u256 and joined
\* again as get_eth_balance joins a Uint256, is the same value
C12_RoundTrip ==
    (bpc = "done" /\ spc = "done" /\ HexInput) =>
        ValueOf(bal) = ValueOf(hex)

(***************************************************************************)
(* to_hex and to_dec, and the argument parser that reads their output back *)
(* (the `dec: FieldElement` and `hex: FieldElement` arguments).            *)
(***************************************************************************)
\* (a variant: the hex digits without the 0x prefix)
to_hex_bare(dec) == FormatFelt(dec, FALSE)

\* format!("{dec:#x}")
to_hex(dec) == FormatFelt(dec, TRUE)

\* hex.to_string()
to_dec(h) == FormatFeltDec(h)

\* P - 1, the largest felt
PrimeMinusOne == SubSeq(FieldPrime, 1, Len(FieldPrime) - 1) \o <<0>>

\* the felts of the model: 0, P - 1, and for every number of digits the
\* values whose first, last and other digits are chosen separately
FeltValues ==
    {<<>>, PrimeMinusOne} \cup
    {f \in {[i \in 1..n |-> IF i = 1 THEN a ELSE IF i = n THEN c ELSE b] :
                n \in 1..Len(FieldPrime), a \in {1, 8, 15}, b \in {0, 15},
                c \in {0, 9, 15}} :
        f[1] # 0 /\ BigLess(f, FieldPrime)}

\* to_hex or to_dec is about to be called on a felt
InitFelt ==
    /\ McIdle
    /\ SuIdle
    /\ EthIdle
    /\ StrIdle
    /\ felt \in FeltValues
    /\ text = <<>>
    /\ back = BigErr("")
    /\ fpc = "call"

ToHex ==
    /\ fpc = "call"
    /\ text' = to_hex(felt)
    /\ fpc' = "hex"
    /\ UNCHANGED <<felt, back>>
    /\ UNCHANGED <<mcVars, suVars, ethVars, strVars>>

ToDec ==
    /\ fpc = "call"
    /\ text' = to_dec(felt)
    /\ fpc' = "dec"
    /\ UNCHANGED <<felt, back>>
    /\ UNCHANGED <<mcVars, suVars, ethVars, strVars>>

\* the text is given back as a FieldElement argument
ParseText ==
    /\ fpc \in {"hex", "dec"}
    /\ back' = felt_from_str(text)
    /\ fpc' = IF fpc = "hex" THEN "hex parsed" ELSE "dec parsed"
    /\ UNCHANGED <<felt, text>>
    /\ UNCHANGED <<mcVars, suVars, ethVars, strVars>>

NextFelt == ToHex \/ ToDec \/ ParseText

SpecFelt == InitFelt /\ [][NextFelt]_vars

\* C13: for every felt f below the prime, the hex text of to_hex(f) parses
\* back to f and the decimal text of to_dec(f) parses back to f
C13_FeltRoundTrip ==
    fpc \in {"hex parsed", "dec parsed"} => (back.ok /\ back.val = felt)

\* the largest felt has gone through its decimal text
C13_Witness ==
    /\ fpc = "dec parsed"
    /\ felt = PrimeMinusOne
    /\ Len(text) = 76
    /\ back = BigOk(PrimeMinusOne)

\* a felt of 63 digits has gone through its hex text
C13_WitnessHex ==
    /\ fpc = "hex parsed"
    /\ Len(felt) = 63
    /\ Len(text) = 65
    /\ back = BigOk(felt)

(***************************************************************************)
(* str_to_felt and from_utf8.  A string is a sequence of characters and a  *)
(* character is the sequence of its UTF-8 bytes.                           *)
(***************************************************************************)
\* str::as_bytes
Bytes(str) == Flatten(str)

\* str::is_ascii
is_ascii(str) == \A i \in 1..Len(Bytes(str)) : Bytes(str)[i] < 128

\* FieldElement::from_bytes_be of the bytes, written as digits
BytesToFelt(bytes) ==
    BigCanon(Flatten([i \in 1..Len(bytes) |->
                        <<bytes[i] \div 16, bytes[i] % 16>>]))

RECURSIVE Reverse(_)
Reverse(q) == IF q = <<>> THEN <<>> ELSE Append(Reverse(Tail(q)), Head(q))

\* (a variant: the first byte least significant)
cairo_short_string_to_felt_le(str) ==
    IF ~is_ascii(str) THEN BigErr("NonAsciiCharacter")
    ELSE IF Len(Bytes(str)) > 31 THEN BigErr("StringTooLong")
    ELSE BigOk(BytesToFelt(Reverse(Bytes(str))))

\* cairo_short_string_to_felt: ASCII only, at most 31 bytes, copied to the
\* end of a 32-byte big-endian buffer
cairo_short_string_to_felt(str) ==
    IF ~is_ascii(str) THEN BigErr("NonAsciiCharacter")
    ELSE IF Len(Bytes(str)) > 31 THEN BigErr("StringTooLong")
    ELSE BigOk(BytesToFelt(Bytes(str)))

str_to_felt(str) ==
    LET f == cairo_short_string_to_felt(str)
    IN  IF f.ok THEN TextOk(FormatFelt(f.val, TRUE)) ELSE TextErr(f.err)

\* FieldElement::to_bytes_be: 32 bytes
to_bytes_be(f) ==
    LET ds == [i \in 1..(2 * 32 - Len(f)) |-> 0] \o f
    IN  [i \in 1..32 |-> ds[2 * i - 1] * 16 + ds[2 * i]]

\* `byte as char`
CharOf(byte) ==
    IF byte < 128 THEN <<byte>>
    ELSE <<192 + (byte \div 64), 128 + (byte % 64)>>

\* the loop of parse_cairo_short_string over the bytes
RECURSIVE PushBytes(_, _)
PushBytes(bytes, buffer) ==
    IF bytes = <<>> THEN TextOk(buffer)
    ELSE IF Head(bytes) = 0
         THEN IF buffer # <<>> THEN TextErr("UnexpectedNullTerminator")
              ELSE PushBytes(Tail(bytes), buffer)
         ELSE PushBytes(Tail(bytes), Append(buffer, CharOf(Head(bytes))))

parse_cairo_short_string(f) ==
    IF f = <<>> THEN TextOk(<<>>)
    ELSE IF to_bytes_be(f)[1] > 0 THEN TextErr("ValueOutOfRange")
    ELSE PushBytes(to_bytes_be(f), <<>>)

from_utf8(f) == parse_cairo_short_string(f)

\* the characters of the model: NUL, U+0001, "A", U+007F and U+00E9
Chars == {<<0>>, <<1>>, <<65>>, <<127>>, <<195, 169>>}

\* the strings of the model: the first, the last and the other characters
\* are chosen separately
ShortStrs ==
    {[i \in 1..n |-> IF i = 1 THEN a ELSE IF i = n THEN c ELSE b] :
        n \in 0..MaxStrChars, a \in Chars, b \in Chars, c \in Chars}

InitStr ==
    /\ McIdle
    /\ SuIdle
    /\ EthIdle
    /\ FeltIdle
    /\ short_str \in ShortStrs
    /\ felt_hex = TextErr("")
    /\ utf8 = TextErr("")
    /\ tpc = "call"

StrToFelt ==
    /\ tpc = "call"
    /\ felt_hex' = str_to_felt(short_str)
    /\ tpc' = "encoded"
    /\ UNCHANGED <<short_str, utf8>>
    /\ UNCHANGED <<mcVars, suVars, ethVars, feltVars>>

\* the hex text is given back as the FieldElement argument of from_utf8
FromUtf8 ==
    /\ tpc = "encoded"
    /\ felt_hex.ok
    /\ LET f == felt_from_str(felt_hex.val)
       IN  utf8' = IF f.ok THEN from_utf8(f.val) ELSE TextErr(f.err)
    /\ tpc' = "decoded"
    /\ UNCHANGED <<short_str, felt_hex>>
    /\ UNCHANGED <<mcVars, suVars, ethVars, feltVars>>

NextStr == StrToFelt \/ FromUtf8

SpecStr == InitStr /\ [][NextStr]_vars

\* the bytes of the string are the base-256 digits of the number the text
\* denotes, the first byte the most significant
PackedBigEndian(str, t) ==
    LET b == Bytes(str)
        v == ValueOf(t)
        ds == [i \in 1..(2 * Len(b) - Len(v)) |-> 0] \o v
    IN  /\ StartsWith0x(t)
        /\ Len(v) <= 2 * Len(b)
        /\ \A i \in 1..Len(b) : ds[2 * i - 1] * 16 + ds[2 * i] = b[i]

ShortLen(str) == Len(Bytes(str)) \in 1..31

NoNullByte(str) == \A i \in 1..Len(Bytes(str)) : Bytes(str)[i] # 0

\* C14 as stated: for every string of 1 to 31 bytes without a null byte,
\* str_to_felt succeeds, the felt holds the bytes big-endian and from_utf8
\* of it returns the string
C14_AnyBytes ==
    (ShortLen(short_str) /\ NoNullByte(short_str)) =>
        /\ tpc # "call" =>
            (felt_hex.ok /\ PackedBigEndian(short_str, felt_hex.val))
        /\ tpc = "decoded" => utf8 = TextOk(short_str)

\* C14 (amended): for every ASCII string of 1 to 31 bytes without a null
\* byte, str_to_felt succeeds, the felt holds the bytes big-endian and
\* from_utf8 of it returns the string; a string with a non-ASCII character
\* is rejected by str_to_felt
C14_AsciiRoundTrip ==
    /\ (ShortLen(short_str) /\ NoNullByte(short_str) /\ is_ascii(short_str)) =>
        /\ tpc # "call" =>
            (felt_hex.ok /\ PackedBigEndian(short_str, felt_hex.val))
        /\ tpc = "decoded" => utf8 = TextOk(short_str)
    /\ (tpc # "call" /\ ~is_ascii(short_str)) =>
        felt_hex = TextErr("NonAsciiCharacter")

\* a string of 31 ASCII bytes has come back from its felt
C14_Witness ==
    /\ tpc = "decoded"
    /\ Len(short_str) = 31
    /\ short_str[1] = <<127>>
    /\ short_str[2] = <<1>>
    /\ short_str[31] = <<65>>
    /\ Len(felt_hex.val) = 64
    /\ utf8 = TextOk(short_str)

\* a string with a non-ASCII character has been rejected
C14_WitnessRejected ==
    /\ tpc = "encoded"
    /\ short_str = <<<<65>>, <<195, 169>>>>
    /\ ~felt_hex.ok

====
